---- MODULE Spec2Model ----
(***************************************************************************)
(* Model of the numerical core of phytodrift:                              *)
(*   - PelagicEggDrift.update_terminal_velocity                            *)
(*       (src/opendrift/models/pelagicegg2.py)                             *)
(*   - phyto_growth_multinutrient / phyt_growth / phyto_growth             *)
(*       (src/unnamed/part_000, src/opendrift/phyt_growth.py,              *)
(*        src/opendrift/models/phyto_growth.py)                            *)
(*   - time_of_day_hours / idealized_surface_flux                          *)
(*       (src/opendrift/idealized_irradiance.py)                           *)
(*                                                                         *)
(* Floating point quantities are fixed-point integers.  Units:             *)
(*   temperature        0.01 degC          salinity        0.01 psu        *)
(*   density, dr        0.001 kg/m3        diameter        1e-4 m          *)
(*   my_w (low Re)      1e-7 Pa s          my_w (high Re)  1e-6            *)
(*   velocities         1e-6 m/s           zi, weights     0.001 level     *)
(* A float that may be NaN is a record [nan, v].                           *)
(***************************************************************************)
EXTENDS Integers, Sequences, FiniteSets, TLC

VARIABLES
    elements,      \* self.elements: diameter, neutral_buoyancy_salinity, z, terminal_velocity
    environment,   \* self.environment: sea_water_temperature, sea_water_salinity
    last,          \* arguments, outcome and transients of the last update_terminal_velocity call
    growth,        \* arguments and return value of the last growth-function call
    flux           \* arguments and return value of the last idealized_surface_flux call

vars == <<elements, environment, last, growth, flux>>

(***************************************************************************)
(* Bounds of the model.                                                    *)
(***************************************************************************)
MaxParticles == 2
LevelSpacing == 4

(***************************************************************************)
(* Fixed-point scales (powers of ten, not program constants).              *)
(***************************************************************************)
Milli == 10 * 100
E4 == 100 * 100

None == [none |-> TRUE]

(***************************************************************************)
(* Floats that may be NaN.                                                 *)
(***************************************************************************)
NaN == [nan |-> TRUE, v |-> 0]
Fin(x) == [nan |-> FALSE, v |-> x]

\* Python/numpy float division truncates nothing; the fixed-point quotient is
\* rounded toward zero so that the sign of a quotient is the sign of the float.
TruncDiv(a, b) ==
    IF b = 0 THEN 0
    ELSE LET q == (IF a < 0 THEN -a ELSE a) \div (IF b < 0 THEN -b ELSE b)
         IN IF (a < 0) = (b < 0) THEN q ELSE -q

\* an array held by value: every entry is computed once, when the array is built
Array(f) == SubSeq(f, 1, Len(f))

Min(a, b) == IF a <= b THEN a ELSE b
Max(a, b) == IF a >= b THEN a ELSE b

RECURSIVE CbrtSearch(_, _, _)
CbrtSearch(n, lo, hi) ==
    IF lo >= hi THEN lo
    ELSE LET mid == (lo + hi + 1) \div 2
         IN IF mid * mid * mid <= n THEN CbrtSearch(n, mid, hi)
                                    ELSE CbrtSearch(n, lo, mid - 1)

\* x ** (1.0/3.0) of a non-negative fixed-point number: the integer cube root.
Cbrt(n) == CbrtSearch(n, 0, 1290)

RECURSIVE ExpSeries(_, _, _, _)
ExpSeries(x4, term, k, acc) ==
    IF term = 0 \/ k > 40 THEN acc
    ELSE LET next == TruncDiv(term * x4, E4 * k)
         IN ExpSeries(x4, next, k + 1, acc + next)

\* np.exp(x) for x given in 1e-4, result in 1e-4 (power series).
Exp4(x4) == ExpSeries(x4, E4, 1, E4)

(***************************************************************************)
(* Program constants.                                                      *)
(***************************************************************************)
g == 981                          \* g = 9.81 m/s2, in 0.01 m/s2
Uint8Range == 256                 \* np.uint8 holds 0 .. 255
fallback_sea_water_temperature == 1000   \* 10 degC
fallback_sea_water_salinity == 3400      \* 34 psu
default_diameter == 14                   \* 0.0014 m
default_neutral_buoyancy_salinity == 3125 \* 31.25 psu

(***************************************************************************)
(* OceanDrift.sea_water_density(T, S): the host framework's density        *)
(* function.  Linear stub rho = 1000 + 0.8 S - 0.2 T kg/m3.                *)
(***************************************************************************)
sea_water_density(T, S) == 1000 * Milli + 8 * S - 2 * T

(***************************************************************************)
(* update_terminal_velocity, per element, lines 111-126.                   *)
(***************************************************************************)
\* line 115: my_w = 0.001*(1.7915 - 0.0538*T0 + 0.007*T0*T0 - 0.0023*S0)
my_w_low(T0, S0) ==
    17915 - TruncDiv(538 * T0, 100)
          + TruncDiv(7 * TruncDiv(T0, 10) * TruncDiv(T0, 10), 10)
          - TruncDiv(23 * S0, 100)

\* line 116: W = (1.0/my_w)*(1.0/18.0)*g*(eggsize**2) * dr
W_low(my_w, eggsize, dr) ==
    TruncDiv(TruncDiv(g * eggsize * eggsize, 18) * dr, my_w)

\* the comparison of line 118 with its sense reversed
highReCondBelow(W, eggsize, my_w) ==
    \/ my_w > 0 /\ 2 * W * eggsize < my_w
    \/ my_w < 0 /\ 2 * W * eggsize > my_w

\* the comparison of line 118 on the magnitude of the velocity
highReCondAbs(W, eggsize, my_w) ==
    LET m == IF W < 0 THEN -W ELSE W
    IN \/ my_w > 0 /\ 2 * m * eggsize > my_w
       \/ my_w < 0 /\ 2 * m * eggsize < my_w

\* line 118: W*1000*eggsize/my_w > 0.5
highReCond(W, eggsize, my_w) ==
    \/ my_w > 0 /\ 2 * W * eggsize > my_w
    \/ my_w < 0 /\ 2 * W * eggsize < my_w

\* line 120: my_w = 0.01854 * np.exp(-0.02783 * T0)
my_w_high(T0) == TruncDiv(1854 * Exp4(-TruncDiv(2783 * T0, 1000)), 1000)

\* lines 121-122: d0 = (eggsize*100) - 0.4*(9.0*my_w**2/(100*g)*DENSw/dr)**(1.0/3.0)
\* (only evaluated here for dr > 0), in 1e-4 cm
d0_high(my_w, eggsize, DENSw, dr) ==
    100 * eggsize
    - 4 * Cbrt(TruncDiv(9 * TruncDiv(my_w * my_w, g), 1000) * TruncDiv(DENSw, dr))

\* lines 123-124: W2 = 19.0*d0*(0.001*dr)**(2.0/3.0)*(my_w*0.001*DENSw)**(-1.0/3.0); W2/100.
\* With dr = 0 numpy gives DENSw/dr = inf, d0 = -inf, (0)**(2/3) = 0 and
\* -inf*0 = NaN; with dr < 0 the fractional powers of a negative base are NaN.
W_high(T0, eggsize, DENSw, dr) ==
    IF dr <= 0 THEN NaN
    ELSE LET my == my_w_high(T0)
             d0 == d0_high(my, eggsize, DENSw, dr)
             A  == Cbrt(dr * dr)
             B  == TruncDiv(1000 * Milli,
                            Cbrt(1000 * TruncDiv(my * TruncDiv(DENSw, 1000), 1000)))
         IN Fin(TruncDiv(TruncDiv(19 * d0 * A, 1000) * B, E4))

\* Lines 111-124 for one element.  A NaN temperature or salinity makes every
\* derived float NaN.
Element(T0, S0, eggsize, eggsalinity) ==
    IF T0.nan \/ S0.nan
    THEN [dr |-> NaN, my_w |-> NaN, W |-> NaN, W2 |-> NaN]
    ELSE LET DENSw   == sea_water_density(T0.v, S0.v)
             DENSegg == sea_water_density(T0.v, eggsalinity)
             dr      == DENSw - DENSegg
             my      == my_w_low(T0.v, S0.v)
         IN [dr |-> Fin(dr), my_w |-> Fin(my),
             W  |-> Fin(W_low(my, eggsize, dr)),
             W2 |-> W_high(T0.v, eggsize, DENSw, dr)]

\* line 118: highRe = np.where(W*1000*eggsize/my_w > 0.5); NaN > 0.5 is False.
highReOf(e, eggsize) ==
    {i \in DOMAIN e : /\ ~e[i].W.nan
                      /\ highReCond(e[i].W.v, eggsize[i], e[i].my_w.v)}

\* a full overwrite in place of the element-wise select of line 126
MergeOverwrite(W, W2, highRe) ==
    Array([i \in DOMAIN W |-> IF highRe # {} THEN W2[i] ELSE W[i]])

\* line 126: W[highRe] = W2[highRe]
Merge(W, W2, highRe) ==
    Array([i \in DOMAIN W |-> IF i \in highRe THEN W2[i] ELSE W[i]])

(***************************************************************************)
(* Arrays.  A profile array is its shape and its entries; the entries of   *)
(* the temperature and salinity profiles are fixed functions of the        *)
(* level (0-based) and the column (1-based).                               *)
(***************************************************************************)
Profile(f, levels, cols) == [field |-> f, shape |-> <<levels, cols>>]

ProfileValue(P, k, col) ==
    IF P.field = "T"
    THEN fallback_sea_water_temperature + 10 * (k % 5) + 3 * (col - 1)
    ELSE fallback_sea_water_salinity + 5 * (k % 5) + 3 * (col - 1)

\* numpy broadcasting of two 1-d lengths; 0 when they cannot be broadcast.
Broadcast(a, b) ==
    IF a = b THEN a ELSE IF a = 1 THEN b ELSE IF b = 1 THEN a ELSE 0

\* element j of a 1-d array broadcast to a longer one
At(s, j) == IF Len(s) = 1 THEN s[1] ELSE s[j]

(***************************************************************************)
(* z_index: a scipy interp1d(depths, range(levels), bounds_error=False)    *)
(* object over the depths LevelDepth(0..levels-1).  fill = "nan" is the    *)
(* default fill_value (lines 93-94); fill = "ends" is                      *)
(* fill_value=(0, levels-1), which a caller may pass.                      *)
(***************************************************************************)
LevelDepth(k) == LevelSpacing * k

Interpolant(levels, fill) == [levels |-> levels, fill |-> fill]

z_index_call(zi, depth) ==
    LET deepest == LevelDepth(zi.levels - 1)
    IN IF depth < 0
       THEN (IF zi.fill = "nan" THEN NaN ELSE Fin(0))
       ELSE IF depth > deepest
       THEN (IF zi.fill = "nan" THEN NaN ELSE Fin((zi.levels - 1) * Milli))
       ELSE LET k == depth \div LevelSpacing
            IN Fin(k * Milli + ((depth - LevelDepth(k)) * Milli) \div LevelSpacing)

\* line 96: np.floor(zi).astype(np.uint8).  A float outside 0..255, and NaN,
\* has no defined conversion to uint8: the build either wraps (NaN gives 0)
\* or saturates (NaN gives 255).
CastModes == {"wrap", "saturate"}

astype_uint8(x, mode) ==
    IF x.nan THEN (IF mode = "wrap" THEN 0 ELSE Uint8Range - 1)
    ELSE LET f == x.v \div Milli
         IN IF 0 <= f /\ f < Uint8Range THEN f
            ELSE IF mode = "wrap" THEN f % Uint8Range
            ELSE IF f < 0 THEN 0 ELSE Uint8Range - 1

\* line 96: upper = np.maximum(np.floor(zi).astype(np.uint8), 0)
upper_of(zi, mode) == Array([i \in DOMAIN zi |-> Max(astype_uint8(zi[i], mode), 0)])

\* line 97: lower = np.minimum(upper+1, Tprofiles.shape[0]-1); upper+1 is uint8
lower_of(upper, levels) ==
    Array([i \in DOMAIN upper |-> Min((upper[i] + 1) % Uint8Range, levels - 1)])

\* line 98: weight_upper = 1 - (zi - upper)
weight_upper_of(zi, upper) ==
    Array([i \in DOMAIN zi |-> IF zi[i].nan THEN NaN
                               ELSE Fin(Milli - (zi[i].v - upper[i] * Milli))])

\* lines 103-104 / 108-109:
\*   P[upper, range(P.shape[1])] * weight_upper + P[lower, range(P.shape[1])] * (1-weight_upper)
Interpolate(P, upper, lower, weight_upper, len) ==
    Array([j \in 1..len |->
        LET w == At(weight_upper, j)
            col == IF P.shape[2] = 1 THEN 1 ELSE j
        IN IF w.nan THEN NaN
           ELSE Fin(TruncDiv(ProfileValue(P, At(upper, j), col) * w.v
                             + ProfileValue(P, At(lower, j), col) * (Milli - w.v),
                             Milli))])

\* the fancy index P[idx, range(P.shape[1])] raises IndexError
IndexFails(P, idx) ==
    \/ Broadcast(Len(idx), P.shape[2]) = 0
    \/ \E i \in DOMAIN idx : idx[i] >= P.shape[1]

(***************************************************************************)
(* update_terminal_velocity(Tprofiles, Sprofiles, z_index), lines 83-127.  *)
(***************************************************************************)
NoTransients ==
    [zi |-> <<>>, upper |-> <<>>, lower |-> <<>>, weight_upper |-> <<>>,
     T0 |-> <<>>, S0 |-> <<>>, dr |-> <<>>, W |-> <<>>, W2 |-> <<>>,
     highRe |-> {}, out |-> <<>>]

Raise(a, error, at) ==
    [called |-> TRUE, args |-> a, outcome |-> error, line |-> at] @@ NoTransients

NoCall ==
    [called |-> FALSE, args |-> None, outcome |-> "none", line |-> 0] @@ NoTransients

\* lines 118-127, given the element-wise results e of lines 111-124
Assemble(a, sampler, T0, S0, eggsize, e, highRe) ==
    [called |-> TRUE, args |-> a, outcome |-> "ok", line |-> 127,
     T0 |-> T0, S0 |-> S0,
     dr |-> Array([j \in DOMAIN e |-> e[j].dr]),
     W  |-> Array([j \in DOMAIN e |-> e[j].W]),
     W2 |-> Array([j \in DOMAIN e |-> e[j].W2]),
     highRe |-> highRe,
     out |-> Merge([j \in DOMAIN e |-> e[j].W], [j \in DOMAIN e |-> e[j].W2], highRe)]
    @@ sampler

\* lines 111-124 over the whole (broadcast) batch
Elements(T0, S0, eggsize, eggsalinity, len) ==
    Array([j \in 1..len |->
              Element(At(T0, j), At(S0, j), At(eggsize, j), At(eggsalinity, j))])

Flagged(a, sampler, T0, S0, eggsize, e) ==
    Assemble(a, sampler, T0, S0, eggsize, e, highReOf(e, eggsize))

\* lines 111-127, given the T0 and S0 of lines 100-109
Velocities(a, sampler, T0, S0) ==
    LET len == Broadcast(Broadcast(Len(T0), Len(S0)), Len(elements.diameter))
    IN IF len = 0
       THEN Raise(a, "ValueError", 111)
       ELSE Flagged(a, sampler, T0, S0,
                    Array([j \in 1..len |-> At(elements.diameter, j)]),
                    Elements(T0, S0, elements.diameter,
                             elements.neutral_buoyancy_salinity, len))

\* lines 100-109, given the sampler's upper, lower and weight_upper
Sample(a, sampler) ==
    LET n == Len(elements.diameter)
        useT == a.Tprofiles # None
        useS == a.Sprofiles # None
    IN IF useT /\ (IndexFails(a.Tprofiles, sampler.upper)
                   \/ IndexFails(a.Tprofiles, sampler.lower))
       THEN Raise(a, "IndexError", 103)
       ELSE IF useS /\ (IndexFails(a.Sprofiles, sampler.upper)
                        \/ IndexFails(a.Sprofiles, sampler.lower))
       THEN Raise(a, "IndexError", 108)
       ELSE LET T0 == IF useT
                      THEN Interpolate(a.Tprofiles, sampler.upper, sampler.lower,
                                       sampler.weight_upper,
                                       Broadcast(n, a.Tprofiles.shape[2]))
                      ELSE Array([i \in 1..n |-> Fin(environment.sea_water_temperature[i])])
                S0 == IF useS
                      THEN Interpolate(a.Sprofiles, sampler.upper, sampler.lower,
                                       sampler.weight_upper,
                                       Broadcast(n, a.Sprofiles.shape[2]))
                      ELSE Array([i \in 1..n |-> Fin(environment.sea_water_salinity[i])])
            IN Velocities(a, sampler, T0, S0)

\* lines 96-98, given zi = z_index(-self.elements.z)
Sampler(zi, upper, levels) ==
    [zi |-> zi, upper |-> upper, lower |-> lower_of(upper, levels),
     weight_upper |-> weight_upper_of(zi, upper)]

NoSampler == [zi |-> <<>>, upper |-> <<>>, lower |-> <<>>, weight_upper |-> <<>>]

Indexed(a, zi, mode, nep50) ==
    IF a.Tprofiles = None
    THEN Raise(a, "AttributeError", 97)     \* None has no attribute shape
    ELSE IF nep50 /\ a.Tprofiles.shape[1] - 1 >= Uint8Range
    THEN Raise(a, "OverflowError", 97)      \* np.minimum(uint8 array, int > 255)
    ELSE Sample(a, Sampler(zi, upper_of(zi, mode), a.Tprofiles.shape[1]))

\* The whole call.  mode is the build's float-to-uint8 conversion; nep50 says
\* whether numpy refuses a Python integer that does not fit the array's dtype
\* (numpy >= 2) or promotes the array (numpy < 2).
update_terminal_velocity(a, mode, nep50) ==
    IF a.Tprofiles = None /\ a.Sprofiles = None
    THEN Sample(a, NoSampler)                                     \* line 90
    ELSE IF a.z_index = None /\ a.Tprofiles = None
    THEN Raise(a, "AttributeError", 92)     \* None has no attribute shape
    ELSE IF a.z_index = None
    THEN Raise(a, "NameError", 93)          \* interp1d is not imported
    ELSE Indexed(a, Array([i \in DOMAIN elements.z |->
                              z_index_call(a.z_index, -elements.z[i])]),
                 mode, nep50)

(***************************************************************************)
(* Inputs.                                                                 *)
(***************************************************************************)
DiameterSet == {default_diameter \div 2, default_diameter}
SalinitySet == {default_neutral_buoyancy_salinity, fallback_sea_water_salinity,
                fallback_sea_water_salinity + 200}
\* first level, between the second and the third level, level 256
DepthSet == {0, LevelSpacing + LevelSpacing \div 2, LevelSpacing * Uint8Range}
LevelCounts == {2, 3, Uint8Range + 1}
Fills == {"nan", "ends"}

\* calls without z_index (the default of line 84)
DefaultIndexArgs(n) ==
    {[Tprofiles |-> t, Sprofiles |-> s, z_index |-> None] :
        t \in {None, Profile("T", 2, n)}, s \in {None, Profile("S", 2, n)}}

\* calls with a z_index whose arrays agree with each other and with the
\* batch of n elements
ConsistentArgs(n) ==
    {[Tprofiles |-> Profile("T", L, n),
      Sprofiles |-> IF withS THEN Profile("S", L, n) ELSE None,
      z_index |-> Interpolant(L, f)] :
        L \in LevelCounts, withS \in BOOLEAN, f \in Fills}
    \cup
    {[Tprofiles |-> None, Sprofiles |-> s, z_index |-> Interpolant(2, "nan")] :
        s \in {None, Profile("S", 2, n)}}

\* calls with a temperature profile whose column count disagrees with the
\* batch, or whose level count disagrees with the salinity profile or with
\* the interpolant
MismatchedArgs(n) ==
    {[Tprofiles |-> Profile("T", 2, c), Sprofiles |-> s,
      z_index |-> Interpolant(2, "ends")] :
        c \in {1, n + 1} \ {n}, s \in {None, Profile("S", 2, n)}}
    \cup
    {[Tprofiles |-> Profile("T", Lt, n), Sprofiles |-> Profile("S", 5 - Lt, n),
      z_index |-> Interpolant(Lt, "ends")] : Lt \in {2, 3}}
    \cup
    {[Tprofiles |-> Profile("T", Lt, n), Sprofiles |-> None,
      z_index |-> Interpolant(5 - Lt, "ends")] : Lt \in {2, 3}}

Args(n) == DefaultIndexArgs(n) \cup ConsistentArgs(n) \cup MismatchedArgs(n)

\* some element's level position has no defined conversion to uint8
Unconvertible(a) ==
    \E i \in DOMAIN elements.z :
        LET zi == z_index_call(a.z_index, -elements.z[i])
        IN zi.nan \/ zi.v \div Milli >= Uint8Range

\* the builds whose behaviour can differ on the call
Builds(a) ==
    IF a.z_index = None \/ a.Tprofiles = None
    THEN {[mode |-> "wrap", nep50 |-> FALSE]}
    ELSE {[mode |-> m, nep50 |-> b] :
             m \in IF Unconvertible(a) THEN CastModes ELSE {"wrap"},
             b \in IF a.Tprofiles.shape[1] - 1 >= Uint8Range THEN BOOLEAN ELSE {FALSE}}

(***************************************************************************)
(* Growth functions.  Concentrations and half-saturation constants are in  *)
(* 0.001 mmol/m3, rates and limitation factors in 0.001, mu_I in 1e-4,     *)
(* temperatures in degC.                                                   *)
(***************************************************************************)
mu_max == 1200        \* 1.2 d^-1
alpha == 300          \* 0.03, in 1e-4
K_N == 500            \* 0.5
K_P == 30             \* 0.03
K_Fe == 1             \* 0.001
Q10 == 2
T_ref == 20
mortality == 50       \* 0.05

\* C / (K_C + C)
Limitation(C, K) == TruncDiv(C * Milli, K + C)

\* a minimum that leaves out its last argument
Min3Two(a, b, c) == Min(a, b)

\* Python's min(a, b, c)
Min3(a, b, c) == Min(Min(a, b), c)

\* mu_I = 1.0 - np.exp(-alpha * I)
LightLimitation(I) == E4 - Exp4(-(alpha * I))

RECURSIVE IntPower(_, _)
IntPower(b, e) == IF e = 0 THEN 1 ELSE b * IntPower(b, e - 1)

\* mu_T = Q10 ** ((T - T_ref) / 10.0), for T - T_ref a multiple of 10
TemperatureFactor(T) ==
    LET e == TruncDiv(T - T_ref, 10)
    IN IF e >= 0 THEN Milli * IntPower(Q10, e)
                 ELSE TruncDiv(Milli, IntPower(Q10, -e))

\* mu = mu_max * mu_I * mu_nut * mu_T
SpecificRate(mu_I, mu_nut, mu_T) ==
    TruncDiv(TruncDiv(TruncDiv(mu_max * mu_I, E4) * mu_nut, Milli) * mu_T, Milli)

\* dPdt = (mu - mortality) * P
NetRate(mu, P) == TruncDiv((mu - mortality) * P, Milli)

\* src/unnamed/part_000: returns (dPdt, mu, mu_nut, lim_N, lim_P, lim_Fe)
phyto_growth_multinutrient(P, I, N, Pnut, Fe, T, kN, kP, kFe) ==
    LET lim_N  == Limitation(N, kN)
        lim_P  == Limitation(Pnut, kP)
        lim_Fe == Limitation(Fe, kFe)
        mu_nut == Min3(lim_N, lim_P, lim_Fe)
        mu     == SpecificRate(LightLimitation(I), mu_nut, TemperatureFactor(T))
    IN [dPdt |-> NetRate(mu, P), mu |-> mu, mu_nut |-> mu_nut,
        lim_N |-> lim_N, lim_P |-> lim_P, lim_Fe |-> lim_Fe]

\* src/opendrift/phyt_growth.py: returns the same values and mu_I, mu_T, as a dict
phyt_growth(P, I, N, Ph, Fe, T, kN, kPh, kFe) ==
    LET lim_N  == Limitation(N, kN)
        lim_Ph == Limitation(Ph, kPh)
        lim_Fe == Limitation(Fe, kFe)
        mu_I   == LightLimitation(I)
        mu_T   == TemperatureFactor(T)
        mu_nut == Min3(lim_N, lim_Ph, lim_Fe)
        mu     == SpecificRate(mu_I, mu_nut, mu_T)
    IN [dPdt |-> NetRate(mu, P), mu |-> mu, mu_nut |-> mu_nut,
        lim_N |-> lim_N, lim_Ph |-> lim_Ph, lim_Fe |-> lim_Fe,
        mu_I |-> mu_I, mu_T |-> mu_T]

\* src/opendrift/models/phyto_growth.py: one nutrient, returns (dPdt, mu)
phyto_growth(P, I, N, T, kN) ==
    LET mu == SpecificRate(LightLimitation(I), Limitation(N, kN), TemperatureFactor(T))
    IN [dPdt |-> NetRate(mu, P), mu |-> mu]

(***************************************************************************)
(* Idealized irradiance.  Times are in quarter hours, day lengths in       *)
(* hours, fluxes in W/m2.                                                  *)
(***************************************************************************)
\* time_of_day_hours: a datetime gives hour + minute/60 + second/3600, any
\* other value is float(time)
time_of_day_hours(time) ==
    IF time.datetime
    THEN TruncDiv(3600 * time.hour + 60 * time.minute + time.second, 900)
    ELSE time.hours

\* np.sin(np.pi * num / den) in 1e-4, for num >= 0 and den > 0: the period is
\* reduced exactly and the half wave is Bhaskara's rational approximation,
\* which is exact at 0, 1/6, 1/2, 5/6 and 1 of the half period.
HalfWave(r, den) ==
    TruncDiv(16 * r * (den - r) * E4, 5 * den * den - 4 * r * (den - r))

SinPi(num, den) ==
    LET r == num % (2 * den)
    IN IF r <= den THEN HalfWave(r, den) ELSE -HalfWave(r - den, den)

\* lines 42-46: phase = np.pi * t / daylength; flux = Fmax * np.maximum(0, np.sin(phase))
idealized_surface_flux(time, daylength, Fmax) ==
    TruncDiv(Fmax * Max(0, SinPi(time_of_day_hours(time), 4 * daylength)), E4)

(***************************************************************************)
(* State machine.                                                          *)
(***************************************************************************)
NoGrowth == [called |-> FALSE]
NoFlux == [called |-> FALSE]

Init ==
    /\ elements = [diameter |-> <<>>, neutral_buoyancy_salinity |-> <<>>,
                   z |-> <<>>, terminal_velocity |-> <<>>]
    /\ environment = [sea_water_temperature |-> <<>>, sea_water_salinity |-> <<>>]
    /\ last = NoCall
    /\ growth = NoGrowth
    /\ flux = NoFlux

\* The framework seeds one element and its ambient (fallback) environment.
SeedElement(d, sal, depth) ==
    /\ Len(elements.diameter) < MaxParticles
    /\ elements' = [diameter |-> Append(elements.diameter, d),
                    neutral_buoyancy_salinity |->
                        Append(elements.neutral_buoyancy_salinity, sal),
                    z |-> Append(elements.z, -depth),
                    terminal_velocity |-> Append(elements.terminal_velocity, Fin(0))]
    /\ environment' =
         [sea_water_temperature |->
              Append(environment.sea_water_temperature, fallback_sea_water_temperature),
          sea_water_salinity |->
              Append(environment.sea_water_salinity, fallback_sea_water_salinity)]
    /\ UNCHANGED <<last, growth, flux>>

\* One call of a run, with any arguments.  The function reads nothing that it
\* writes, so a later call behaves as the first call from the same inputs.
UpdateTerminalVelocity ==
    /\ Len(elements.diameter) >= 1
    /\ ~last.called
    /\ \E a \in Args(Len(elements.diameter)) : \E build \in Builds(a) :
          last' = update_terminal_velocity(a, build.mode, build.nep50)
    /\ elements' = IF last'.outcome = "ok"
                   THEN [elements EXCEPT !.terminal_velocity = last'.out]   \* line 127
                   ELSE elements
    /\ UNCHANGED <<environment, growth, flux>>

SeedSome ==
    /\ ~last.called
    /\ \E d \in DiameterSet, sal \in SalinitySet, depth \in DepthSet :
          SeedElement(d, sal, depth)

Next == SeedSome \/ UpdateTerminalVelocity

Spec == Init /\ [][Next]_vars

(***************************************************************************)
(* The growth functions, applied to inputs from bounded sets.              *)
(***************************************************************************)
BiomassSet == {Milli}
IrradianceSet == {0, 40, 80}
NitrateSet == {0, 600, 1200}
PhosphateSet == {0, 50, 100}
IronSet == {0, 2, 5}
TemperatureSet == {T_ref - 10, T_ref, T_ref + 10}
HalfSaturationSets ==
    [N : {K_N, K_N \div 5}, P : {K_P, 2 * K_P}, Fe : {K_Fe, 3 * K_Fe}]

GrowthArgs ==
    [P : BiomassSet, I : IrradianceSet, N : NitrateSet, Pnut : PhosphateSet,
     Fe : IronSet, T : TemperatureSet, K : HalfSaturationSets]

InitGrowth ==
    /\ elements = [diameter |-> <<>>, neutral_buoyancy_salinity |-> <<>>,
                   z |-> <<>>, terminal_velocity |-> <<>>]
    /\ environment = [sea_water_temperature |-> <<>>, sea_water_salinity |-> <<>>]
    /\ last = NoCall
    /\ growth \in {[called |-> FALSE, fn |-> "none", args |-> x, result |-> None] :
                      x \in GrowthArgs}
    /\ flux = NoFlux

CallMultinutrient ==
    /\ ~growth.called
    /\ growth' = LET x == growth.args
                 IN [called |-> TRUE, fn |-> "phyto_growth_multinutrient", args |-> x,
                     result |-> phyto_growth_multinutrient(x.P, x.I, x.N, x.Pnut, x.Fe,
                                                           x.T, x.K.N, x.K.P, x.K.Fe)]
    /\ UNCHANGED <<elements, environment, last, flux>>

CallPhytGrowth ==
    /\ ~growth.called
    /\ growth' = LET x == growth.args
                 IN [called |-> TRUE, fn |-> "phyt_growth", args |-> x,
                     result |-> phyt_growth(x.P, x.I, x.N, x.Pnut, x.Fe,
                                            x.T, x.K.N, x.K.P, x.K.Fe)]
    /\ UNCHANGED <<elements, environment, last, flux>>

CallPhytoGrowth ==
    /\ ~growth.called
    /\ growth' = LET x == growth.args
                 IN [called |-> TRUE, fn |-> "phyto_growth", args |-> x,
                     result |-> phyto_growth(x.P, x.I, x.N, x.T, x.K.N)]
    /\ UNCHANGED <<elements, environment, last, flux>>

NextGrowth == CallMultinutrient \/ CallPhytGrowth \/ CallPhytoGrowth

SpecGrowth == InitGrowth /\ [][NextGrowth]_vars

(***************************************************************************)
(* idealized_surface_flux, applied to inputs from bounded sets.            *)
(***************************************************************************)
DayLengthSet == {6, 8, 12, 16, 24}
FmaxSet == {0, 500, 1000}
TimeSet ==
    {[datetime |-> TRUE, hour |-> h, minute |-> m, second |-> 0, hours |-> 0] :
        h \in 0..23, m \in {0, 30}}
    \cup {[datetime |-> FALSE, hour |-> 0, minute |-> 0, second |-> 0, hours |-> q] :
        q \in {4 * h : h \in 0..24}}

InitFlux ==
    /\ elements = [diameter |-> <<>>, neutral_buoyancy_salinity |-> <<>>,
                   z |-> <<>>, terminal_velocity |-> <<>>]
    /\ environment = [sea_water_temperature |-> <<>>, sea_water_salinity |-> <<>>]
    /\ last = NoCall
    /\ growth = NoGrowth
    /\ flux \in {[called |-> FALSE, time |-> time, daylength |-> daylength,
                  Fmax |-> Fmax, t |-> 0, result |-> 0] :
                    time \in TimeSet, daylength \in DayLengthSet, Fmax \in FmaxSet}

CallSurfaceFlux ==
    /\ ~flux.called
    /\ flux' = [flux EXCEPT !.called = TRUE,
                            !.t = time_of_day_hours(flux.time),
                            !.result = idealized_surface_flux(flux.time, flux.daylength,
                                                              flux.Fmax)]
    /\ UNCHANGED <<elements, environment, last, growth>>

NextFlux == CallSurfaceFlux

SpecFlux == InitFlux /\ [][NextFlux]_vars

(***************************************************************************)
(* Properties.                                                             *)
(***************************************************************************)
Ok == last.called /\ last.outcome = "ok"

\* lines 111-124 for element j of the last call, from that element's inputs alone
Own(j) ==
    Element(At(last.T0, j), At(last.S0, j), At(elements.diameter, j),
            At(elements.neutral_buoyancy_salinity, j))

\* W_low * 1000 * diameter / mu_low > 0.5 for element j of the last call
ExceedsLowRe(j) ==
    /\ ~last.W[j].nan
    /\ highReCond(last.W[j].v, At(elements.diameter, j),
                  my_w_low(At(last.T0, j).v, At(last.S0, j).v))

C1_Element(j, own) ==
    /\ last.W[j] = own.W
    /\ last.W2[j] = own.W2
    /\ elements.terminal_velocity[j] = IF ExceedsLowRe(j) THEN own.W2 ELSE own.W

\* C1: after a call that returns, the terminal velocity of every element is
\* the high-Re value W2 of that element exactly when its own
\* W*1000*diameter/my_w exceeds 0.5, and its own low-Re value W otherwise;
\* both values are those computed from the element's own inputs.
C1_ElementWiseSelect ==
    Ok => \A j \in DOMAIN last.out : C1_Element(j, Own(j))

\* C1 witness: a batch with one element in each regime, each with its own value.
C1_Witness ==
    /\ Ok
    /\ \E i, j \in DOMAIN last.out :
          /\ i \in last.highRe /\ j \notin last.highRe
          /\ ~last.W2[i].nan /\ last.W2[i] # last.W[i]
          /\ elements.terminal_velocity[i] = last.W2[i]
          /\ ~last.W[j].nan /\ last.W[j].v # 0
          /\ elements.terminal_velocity[j] = last.W[j]

\* C2: after a call that returns, every element whose density contrast is
\* zero has terminal velocity exactly 0 (a number, not the NaN of the high-Re
\* branch).
C2_NeutralIsZero ==
    Ok => \A j \in DOMAIN last.out :
             last.dr[j] = Fin(0) => elements.terminal_velocity[j] = Fin(0)

\* C2 witness: a neutral element whose high-Re value is NaN, beside an
\* element in the high-Re regime, has velocity 0.
C2_Witness ==
    /\ Ok
    /\ \E i, j \in DOMAIN last.out :
          /\ last.dr[j] = Fin(0) /\ last.W2[j].nan
          /\ elements.terminal_velocity[j] = Fin(0)
          /\ i \in last.highRe

\* C10: after a call that returns, with diameter > 0 and my_w > 0, a flagged
\* element has a strictly positive density contrast, and an element with a
\* zero or negative density contrast keeps its low-Re velocity, a number
\* with the sign of the density contrast.
C10_FlaggedOnlyIfPositive ==
    Ok => \A j \in DOMAIN last.out :
             (~last.dr[j].nan /\ At(elements.diameter, j) > 0
                /\ my_w_low(At(last.T0, j).v, At(last.S0, j).v) > 0)
             => /\ j \in last.highRe => last.dr[j].v > 0
                /\ last.dr[j].v <= 0 =>
                      /\ elements.terminal_velocity[j] = last.W[j]
                      /\ ~last.W[j].nan
                      /\ (last.dr[j].v < 0 => last.W[j].v < 0)
                      /\ (last.dr[j].v = 0 => last.W[j].v = 0)

\* C10 witness: a sinking element whose |W|*1000*diameter/my_w exceeds 0.5
\* is not flagged and keeps its negative low-Re velocity.
C10_Witness ==
    /\ Ok
    /\ \E j \in DOMAIN last.out :
          /\ ~last.dr[j].nan /\ last.dr[j].v < 0
          /\ highReCondAbs(last.W[j].v, At(elements.diameter, j),
                           my_w_low(At(last.T0, j).v, At(last.S0, j).v))
          /\ j \notin last.highRe
          /\ last.W2[j].nan
          /\ elements.terminal_velocity[j] = last.W[j]
          /\ last.W[j].v < 0

(***************************************************************************)
(* The profile sampler.                                                    *)
(***************************************************************************)
Given(x) == x # None

\* the arrays of the last call agree with each other and with the batch
ShapesAgree ==
    LET a == last.args
        n == Len(elements.diameter)
    IN /\ Given(a.Tprofiles) => a.Tprofiles.shape[2] = n
       /\ Given(a.Sprofiles) => a.Sprofiles.shape[2] = n
       /\ (Given(a.Tprofiles) /\ Given(a.Sprofiles))
             => a.Tprofiles.shape[1] = a.Sprofiles.shape[1]
       /\ (Given(a.Tprofiles) /\ Given(a.z_index))
             => a.Tprofiles.shape[1] = a.z_index.levels
       /\ (Given(a.Sprofiles) /\ Given(a.z_index))
             => a.Sprofiles.shape[1] = a.z_index.levels

ProfilesGiven == last.called /\ (Given(last.args.Tprofiles) \/ Given(last.args.Sprofiles))

\* the number of levels of the profiles of the last call
NumLevels ==
    IF Given(last.args.Tprofiles) THEN last.args.Tprofiles.shape[1]
    ELSE last.args.Sprofiles.shape[1]

Depth(i) == -elements.z[i]

\* the sampled fields of element i equal the profiles' values at level k
SampledAtLevel(i, k) ==
    /\ Given(last.args.Tprofiles)
          => last.T0[i] = Fin(ProfileValue(last.args.Tprofiles, k, i))
    /\ Given(last.args.Sprofiles)
          => last.S0[i] = Fin(ProfileValue(last.args.Sprofiles, k, i))

\* the last call was made with a temperature profile and an interpolant,
\* all arrays agreeing
Sampled ==
    /\ last.called
    /\ Given(last.args.Tprofiles) /\ Given(last.args.z_index)
    /\ ShapesAgree

\* C3: a call with (agreeing) profiles and an element deeper than the deepest
\* level returns, and the element's sampled temperature and salinity are
\* the deepest level's values.
C3_OutOfRangeClamps ==
    Sampled =>
        \A i \in DOMAIN elements.z :
            Depth(i) > LevelDepth(NumLevels - 1)
            => /\ last.outcome = "ok"
               /\ SampledAtLevel(i, NumLevels - 1)

\* C4: when the sampler has run, for every element whose depth lies within
\* the profile's depths, upper = max(floor(zi), 0),
\* lower = min(upper + 1, numLevels - 1), 0 <= upper <= lower <= numLevels - 1
\* and 0 <= weight_upper <= 1.
C4_IndicesAndWeight ==
    (Ok /\ Given(last.args.Tprofiles)) =>
        \A i \in DOMAIN last.zi :
            ~last.zi[i].nan
            => LET floor == last.zi[i].v \div Milli
                   levels == last.args.Tprofiles.shape[1]
               IN /\ last.upper[i] = Max(floor, 0)
                  /\ last.lower[i] = Min(last.upper[i] + 1, levels - 1)
                  /\ 0 <= last.upper[i] /\ last.upper[i] <= last.lower[i]
                  /\ last.lower[i] <= levels - 1
                  /\ ~last.weight_upper[i].nan
                  /\ 0 <= last.weight_upper[i].v /\ last.weight_upper[i].v <= Milli

\* C5: a call with (agreeing) profiles and an element exactly at the depth
\* of level k returns with upper = k and weight_upper = 1 for that element,
\* whose sampled temperature and salinity are the values at level k.
C5_ExactLevel ==
    Sampled =>
        \A i \in DOMAIN elements.z :
            \A k \in 0..(NumLevels - 1) :
                Depth(i) = LevelDepth(k)
                => /\ last.outcome = "ok"
                   /\ last.upper[i] = k
                   /\ last.weight_upper[i] = Fin(Milli)
                   /\ SampledAtLevel(i, k)

\* C6: a call whose profile arrays disagree with the batch or with each
\* other raises, and leaves the terminal velocities as they were seeded.
C6_MismatchFailsFast ==
    (ProfilesGiven /\ ~ShapesAgree) =>
        /\ last.outcome # "ok"
        /\ elements.terminal_velocity = [i \in DOMAIN elements.diameter |-> Fin(0)]

\* C7: without z_index, each of the four combinations of a temperature and a
\* salinity profile given or absent returns; a field without profile is the
\* ambient value, and with no profile at all nothing of the sampler is
\* computed.
C7_AbsentProfilesAreValid ==
    (last.called /\ ~Given(last.args.z_index)) =>
        /\ last.outcome = "ok"
        /\ ~Given(last.args.Tprofiles)
              => last.T0 = [i \in DOMAIN elements.z |->
                               Fin(environment.sea_water_temperature[i])]
        /\ ~Given(last.args.Sprofiles)
              => last.S0 = [i \in DOMAIN elements.z |->
                               Fin(environment.sea_water_salinity[i])]
        /\ ~ProfilesGiven => last.zi = <<>> /\ last.upper = <<>> /\ last.weight_upper = <<>>

(***************************************************************************)
(* The growth functions.                                                   *)
(***************************************************************************)
MultiNutrient == growth.called /\ growth.fn \in {"phyto_growth_multinutrient", "phyt_growth"}

\* C8: the nutrient limitation factor returned by the multi-nutrient growth
\* functions is at most each of N/(K_N+N), P/(K_P+P), Fe/(K_Fe+Fe) and equal
\* to one of them, the specific rate is mu_max * light * that factor *
\* temperature factor, and N = 1.2, P = 0.05, Fe = 0.002 with the default
\* constants select the phosphate ratio.
C8_LiebigMinimum ==
    MultiNutrient =>
        LET x == growth.args
            r == growth.result
            ratios == <<Limitation(x.N, x.K.N), Limitation(x.Pnut, x.K.P),
                        Limitation(x.Fe, x.K.Fe)>>
        IN /\ \A k \in 1..3 : r.mu_nut <= ratios[k]
           /\ \E k \in 1..3 : r.mu_nut = ratios[k]
           /\ r.mu = SpecificRate(LightLimitation(x.I), r.mu_nut, TemperatureFactor(x.T))
           /\ (x.N = 1200 /\ x.Pnut = 50 /\ x.Fe = 2
                 /\ x.K = [N |-> K_N, P |-> K_P, Fe |-> K_Fe])
                 => r.mu_nut = ratios[2] /\ r.mu_nut = 625

\* C8 witness: the example inputs, where phosphate (0.625) limits below
\* nitrate (0.705) and iron (0.666), with light and a positive rate.
C8_Witness ==
    /\ MultiNutrient
    /\ growth.args.N = 1200 /\ growth.args.Pnut = 50 /\ growth.args.Fe = 2
    /\ growth.args.K = [N |-> K_N, P |-> K_P, Fe |-> K_Fe]
    /\ growth.result.lim_N = 705 /\ growth.result.lim_Fe = 666
    /\ growth.result.mu_nut = 625
    /\ growth.result.mu > 0

(***************************************************************************)
(* The surface flux.                                                       *)
(***************************************************************************)
\* C9: the flux is never negative, is zero when the hour lies outside
\* [0, daylength], is positive only strictly inside, and is Fmax at
\* hour = daylength / 2.
C9_ZeroOutsideLitWindow ==
    flux.called =>
        LET day == 4 * flux.daylength
        IN /\ flux.result >= 0
           /\ (flux.t < 0 \/ flux.t > day) => flux.result = 0
           /\ flux.result > 0 => (0 < flux.t /\ flux.t < day)
           /\ 2 * flux.t = day => flux.result = flux.Fmax

====
